---- MODULE Spec2Model ----
(***************************************************************************)
(* teenypng: batch PNG optimizer.  main() parses the arguments after "--", *)
(* discovers PNG files, and maps process_image over them on a thread pool. *)
(* process_image chains Resize (Pillow), Quantize (pngquant) and           *)
(* Re-optimize (zopflipng); every stage writes a side-path derived from    *)
(* the file path by str.replace and then os.replace()s it over the file.   *)
(*                                                                         *)
(* Paths are sequences of one-character strings, so that str.replace,      *)
(* str.lower and str.endswith are computed character by character.         *)
(***************************************************************************)
EXTENDS Integers, Sequences, FiniteSets, TLC

(* ------------------------------ bounds --------------------------------- *)

\* at most this many entries are placed in the input directory
MaxEntries == 2

\* os.cpu_count() of the machine the run happens on is in 1..MaxCpuCount
MaxCpuCount == 6

\* pixel width of every image initially on disk
ImgWidth == 5

(* ------------------------- strings of the source ----------------------- *)

DotPng == <<".", "p", "n", "g">>

ResizedSuffix == <<"_", "r", "e", "s", "i", "z", "e", "d", ".", "p", "n", "g">>

PngquantSuffix == <<"_", "p", "n", "g", "q", "u", "a", "n", "t", ".", "p", "n", "g">>

OptimizedSuffix == <<"_", "o", "p", "t", "i", "m", "i", "z", "e", "d", ".", "p", "n", "g">>

\* str.lower on the characters that occur in the modelled names
LowerChar(c) ==
    CASE c = "P" -> "p"
      [] c = "N" -> "n"
      [] c = "G" -> "g"
      [] c = "B" -> "b"
      [] OTHER -> c

Lower(s) == [k \in 1..Len(s) |-> LowerChar(s[k])]

EndsWith(s, suf) ==
    /\ Len(s) >= Len(suf)
    /\ SubSeq(s, Len(s) - Len(suf) + 1, Len(s)) = suf

\* str.replace(old, new): every non-overlapping occurrence, left to right
RECURSIVE Replace(_, _, _)
Replace(s, old, new) ==
    IF Len(s) < Len(old) THEN s
    ELSE IF SubSeq(s, 1, Len(old)) = old
         THEN new \o Replace(SubSeq(s, Len(old) + 1, Len(s)), old, new)
         ELSE <<Head(s)>> \o Replace(Tail(s), old, new)

\* os.path.join(root, f)
Join(root, f) == root \o <<"/">> \o f

\* the side-paths the three stages derive from a file path
ResizedPath(p) == Replace(p, DotPng, ResizedSuffix)

PngquantPath(p) == Replace(p, DotPng, PngquantSuffix)

ZopfliPath(p) == Replace(p, DotPng, OptimizedSuffix)

\* NUM_THREADS = max(1, os.cpu_count() - 4)
NumThreads(cpu_count) == IF cpu_count - 4 > 1 THEN cpu_count - 4 ELSE 1

(* ------------------------------ the disk ------------------------------- *)

Root == <<"i">>

NameA == <<"a", ".", "p", "n", "g">>

NameAQ == <<"a", "_", "p", "n", "g", "q", "u", "a", "n", "t", ".", "p", "n", "g">>

NameB == <<"B", ".", "P", "N", "G">>

NameC == <<"c", ".", "j", "p", "g">>

NameD == <<"d", ".", "p", "n", "g">>

NameS == <<"s">>

NameE == <<"e", ".", "p", "n", "g">>

\* names that may be placed in the input directory beside the file NameC;
\* NameD and NameS are subdirectories, and NameS holds the file NameE
Candidates == {NameA, NameAQ, NameB, NameD, NameS}

DirNames == {NameD, NameS}

\* the order in which the directory listing returns the names it holds
DirOrder == <<NameA, NameAQ, NameB, NameC, NameD, NameS, NameE>>

NoFile == [kind |-> "none", stage |-> "none", of |-> <<>>, w |-> 0]

DirEntry == [kind |-> "dir", stage |-> "none", of |-> <<>>, w |-> 0]

\* the bytes of a file: which invocation wrote them, and the image width
Bytes(stage, p, w) == [kind |-> "file", stage |-> stage, of |-> p, w |-> w]

Layout(E) ==
    LET top == {Join(Root, n) : n \in E \cup {NameC}}
        sub == IF NameS \in E THEN {Join(Join(Root, NameS), NameE)} ELSE {}
    IN  [p \in {Root} \cup top \cup sub |->
            IF p = Root \/ p \in {Join(Root, n) : n \in DirNames}
            THEN DirEntry
            ELSE Bytes("orig", p, ImgWidth)]

At(F, p) == IF p \in DOMAIN F THEN F[p] ELSE NoFile

\* os.path.exists / isfile / isdir
Exists(F, p) == p \in DOMAIN F

IsFile(F, p) == At(F, p).kind = "file"

IsDir(F, p) == At(F, p).kind = "dir"

\* os.listdir(d): the names of all entries of d, files and directories alike
ListDir(F, d) ==
    LET In(n) == Exists(F, Join(d, n))
    IN  SelectSeq(DirOrder, In)

\* [os.path.join(root, f) for f in files if f.lower().endswith(".png")]
PngPaths(root, files) ==
    LET IsPng(n) == EndsWith(Lower(n), DotPng)
        names == SelectSeq(files, IsPng)
    IN  [k \in 1..Len(names) |-> Join(root, names[k])]

\* what os.walk yields for one root: its subdirectories and its other entries
WalkDirs(F, root) ==
    LET D(n) == IsDir(F, Join(root, n))
    IN  SelectSeq(ListDir(F, root), D)

WalkFiles(F, root) ==
    LET N(n) == ~IsDir(F, Join(root, n))
    IN  SelectSeq(ListDir(F, root), N)

\* the loop over os.walk(top), top-down: png_files.extend(...) for every root
RECURSIVE Walk(_, _)
RECURSIVE WalkEach(_, _, _)
Walk(F, top) == PngPaths(top, WalkFiles(F, top)) \o WalkEach(F, top, WalkDirs(F, top))

WalkEach(F, top, dirs) ==
    IF dirs = <<>> THEN <<>>
    ELSE Walk(F, Join(top, Head(dirs))) \o WalkEach(F, top, Tail(dirs))

\* get_png_files: the returned list
PngFiles(F, input_path, recursive) ==
    IF IsFile(F, input_path) /\ EndsWith(Lower(input_path), DotPng)
    THEN <<input_path>>
    ELSE IF IsDir(F, input_path)
    THEN IF recursive
         THEN Walk(F, input_path)
         ELSE PngPaths(input_path, ListDir(F, input_path))
    ELSE <<>>

(* ------------------------- command line inputs ------------------------- *)

\* an optional integer argument: <<>> when the flag is omitted (None)
Sizes == {<<>>, <<0>>, <<50>>}

Qualities == {<<>>, <<0>>, <<80>>}

InputPaths == {Root, Join(Root, NameA), Join(Root, NameC)}

\* sys.argv: whether "--" is present, whether argparse accepts what follows,
\* and the values it then parses
Argvs ==
    {[sep |-> FALSE, ok |-> TRUE, input_path |-> Root, size |-> <<>>,
      quality |-> <<>>, recursive |-> FALSE],
     [sep |-> TRUE, ok |-> FALSE, input_path |-> Root, size |-> <<>>,
      quality |-> <<>>, recursive |-> FALSE]}
    \cup [sep : {TRUE}, ok : {TRUE}, input_path : InputPaths, size : Sizes,
          quality : Qualities, recursive : BOOLEAN]

\* Python truthiness of an optional int: None and 0 are false
Truthy(o) == o # <<>> /\ o[1] # 0

Supplied(o) == o # <<>>

\* int(width * size_percent / 100) for the non-negative values modelled
NewSize(width, size_percent) == (width * size_percent) \div 100

(* ------------------------------- state --------------------------------- *)

VARIABLES
    argv,        \* the command line
    tools,       \* whether PNGQUANT_PATH / ZOPFLI_PATH can be started
    NUM_THREADS, \* the size of the worker pool
    fs,          \* the disk: path -> entry
    dpc,         \* position of main()
    exitStatus,  \* process exit status, -1 while running
    png_files,   \* the list get_png_files returned
    jobs,        \* the arguments executor.map submitted, in order
    queue,       \* submitted jobs no worker has taken yet
    pc,          \* per job: stage and step of process_image
    invoked,     \* per job: the stages invoked so far, in order
    before,      \* per job: bytes at the file path when the current stage began
    out,         \* per job: bytes the current stage's invocation produced
    hist,        \* finished stages: job, stage, bytes before/after, report
    log          \* lines printed by the stages

vars == <<argv, tools, NUM_THREADS, fs, dpc, exitStatus, png_files, jobs, queue, pc,
          invoked, before, out, hist, log>>

Jobs == DOMAIN jobs

At_(stage, step) == [stage |-> stage, step |-> step]

Finished(i) == pc[i].stage \in {"done", "raised"}

Active == {i \in Jobs : pc[i].stage \notin {"queued", "done", "raised"}}

Init ==
    /\ argv \in Argvs
    /\ tools \in [pngquant : BOOLEAN, zopfli : BOOLEAN]
    /\ NUM_THREADS \in {NumThreads(c) : c \in 1..MaxCpuCount}
    /\ fs \in {Layout(E) : E \in {X \in SUBSET Candidates : Cardinality(X) <= MaxEntries}}
    /\ dpc = "Idle"
    /\ exitStatus = -1
    /\ png_files = <<>>
    /\ jobs = <<>>
    /\ queue = <<>>
    /\ pc = <<>>
    /\ invoked = <<>>
    /\ before = <<>>
    /\ out = <<>>
    /\ hist = {}
    /\ log = {}

(* ----------------------------- main() ---------------------------------- *)

\* sys.exit(1) when "--" is missing
NoSeparatorStatus == 1

\* the status argparse exits with when it rejects the arguments
ArgparseErrorStatus == 2

\* the status of a process whose main() ran to its end
ReturnStatus == 0

NoFilesStatus_exit1 == NoSeparatorStatus

\* the status after "No PNG files found. Exiting." and main()'s plain return
NoFilesStatus == 0

parse_blender_args ==
    /\ dpc = "Idle"
    /\ IF ~argv.sep
       THEN dpc' = "Exited" /\ exitStatus' = NoSeparatorStatus
       ELSE IF ~argv.ok
       THEN dpc' = "Exited" /\ exitStatus' = ArgparseErrorStatus
       ELSE dpc' = "Parsed" /\ UNCHANGED exitStatus
    /\ UNCHANGED <<argv, tools, NUM_THREADS, fs, png_files, jobs, queue, pc, invoked,
                   before, out, hist, log>>

get_png_files ==
    /\ dpc = "Parsed"
    /\ png_files' = PngFiles(fs, argv.input_path, argv.recursive)
    /\ dpc' = "Discovered"
    /\ UNCHANGED <<argv, tools, NUM_THREADS, fs, exitStatus, jobs, queue, pc, invoked,
                   before, out, hist, log>>

\* "if not png_files: ... return", else executor.map submits every file
Submit ==
    /\ dpc = "Discovered"
    /\ IF png_files = <<>>
       THEN /\ dpc' = "Returned"
            /\ exitStatus' = NoFilesStatus
            /\ UNCHANGED <<jobs, queue, pc, invoked, before, out>>
       ELSE /\ dpc' = "Running"
            /\ jobs' = png_files
            /\ queue' = [k \in 1..Len(png_files) |-> k]
            /\ pc' = [k \in 1..Len(png_files) |-> At_("queued", "-")]
            /\ invoked' = [k \in 1..Len(png_files) |-> <<>>]
            /\ before' = [k \in 1..Len(png_files) |-> NoFile]
            /\ out' = [k \in 1..Len(png_files) |-> NoFile]
            /\ UNCHANGED exitStatus
    /\ UNCHANGED <<argv, tools, NUM_THREADS, fs, png_files, hist, log>>

ShutdownWait_nowait == queue = <<>>

\* leaving the "with ThreadPoolExecutor" block: shutdown(wait=True)
ShutdownWait == queue = <<>> /\ \A i \in Jobs : Finished(i)

Done ==
    /\ dpc = "Running"
    /\ ShutdownWait
    /\ dpc' = "Done"
    /\ exitStatus' = ReturnStatus
    /\ UNCHANGED <<argv, tools, NUM_THREADS, fs, png_files, jobs, queue, pc, invoked,
                   before, out, hist, log>>

(* -------------------------- process_image ------------------------------ *)

StageAfter_zopfli_first(s, a) ==
    IF s = "start" /\ Truthy(a.size) THEN "resize"
    ELSE IF s \in {"start", "resize"} THEN "zopfli"
    ELSE IF s = "zopfli" /\ Truthy(a.quality) THEN "pngquant"
    ELSE "done"

\* the stage process_image reaches after stage s ("start": on entry):
\* "if size:" resize; "if quality:" pngquant; then zopfli; then it returns
StageAfter(s, a) ==
    IF s = "start" /\ Truthy(a.size) THEN "resize"
    ELSE IF s \in {"start", "resize"} /\ Truthy(a.quality) THEN "pngquant"
    ELSE IF s \in {"start", "resize", "pngquant"} THEN "zopfli"
    ELSE "done"

\* the first step of a stage
Entry(stage) == IF stage = "done" THEN At_("done", "-") ELSE At_(stage, "run")

SidePath(stage, p) ==
    CASE stage = "resize" -> ResizedPath(p)
      [] stage = "pngquant" -> PngquantPath(p)
      [] stage = "zopfli" -> ZopfliPath(p)

Put(F, p, v) == [q \in DOMAIN F \cup {p} |-> IF q = p THEN v ELSE F[q]]

\* os.replace(src, dst) succeeds: src exists, and a file does not land on a
\* directory (a directory source does not occur: no side-path is a directory)
CanReplace(F, src, dst) ==
    /\ Exists(F, src)
    /\ \/ src = dst
       \/ IsFile(F, src) /\ ~IsDir(F, dst)

OsReplace(F, src, dst) ==
    IF src = dst THEN F
    ELSE [q \in (DOMAIN F \ {src}) \cup {dst} |-> IF q = dst THEN F[src] ELSE F[q]]

Rec(i, stage, F, report) ==
    [job |-> i, stage |-> stage, before |-> before[i], out |-> out[i],
     after |-> At(F, jobs[i]), report |-> report]

Line(i, stage, ok) == [file |-> jobs[i], stage |-> stage, ok |-> ok]

\* a worker thread takes the next submitted job and enters process_image
process_image(i) ==
    /\ dpc = "Running"
    /\ queue # <<>>
    /\ i = Head(queue)
    /\ Cardinality(Active) < NUM_THREADS
    /\ queue' = Tail(queue)
    /\ pc' = [pc EXCEPT ![i] = Entry(StageAfter("start", argv))]
    /\ UNCHANGED <<argv, tools, NUM_THREADS, fs, dpc, exitStatus, png_files, jobs,
                   invoked, before, out, hist, log>>

\* what Image.open .. img.save can do: decode and save, or raise
ResizeOutcomes(F, p) == IF IsFile(F, p) THEN {"ok", "raise"} ELSE {"raise"}

resize_image(i) ==
    /\ pc[i] = At_("resize", "run")
    /\ invoked' = [invoked EXCEPT ![i] = Append(@, "resize")]
    /\ before' = [before EXCEPT ![i] = At(fs, jobs[i])]
    /\ \E r \in ResizeOutcomes(fs, jobs[i]) :
         IF r = "ok"
         THEN LET img == Bytes("resize", jobs[i], NewSize(fs[jobs[i]].w, argv.size[1]))
              IN  /\ fs' = Put(fs, ResizedPath(jobs[i]), img)
                  /\ out' = [out EXCEPT ![i] = img]
                  /\ log' = log \cup {Line(i, "resize", TRUE)}
                  /\ pc' = [pc EXCEPT ![i] = At_("resize", "replace")]
                  /\ UNCHANGED hist
         ELSE /\ pc' = [pc EXCEPT ![i] = At_("raised", "-")]
              /\ out' = [out EXCEPT ![i] = NoFile]
              /\ hist' = hist \cup {[job |-> i, stage |-> "resize",
                                     before |-> At(fs, jobs[i]), out |-> NoFile,
                                     after |-> At(fs, jobs[i]), report |-> "raise"]}
              /\ UNCHANGED <<fs, log>>
    /\ UNCHANGED <<argv, tools, NUM_THREADS, dpc, exitStatus, png_files, jobs, queue>>

\* os.replace(resized_output, file_path) in process_image
resize_replace(i) ==
    /\ pc[i] = At_("resize", "replace")
    /\ IF CanReplace(fs, ResizedPath(jobs[i]), jobs[i])
       THEN /\ fs' = OsReplace(fs, ResizedPath(jobs[i]), jobs[i])
            /\ hist' = hist \cup {Rec(i, "resize", fs', "ok")}
            /\ pc' = [pc EXCEPT ![i] = Entry(StageAfter("resize", argv))]
       ELSE /\ hist' = hist \cup {Rec(i, "resize", fs, "raise")}
            /\ pc' = [pc EXCEPT ![i] = At_("raised", "-")]
            /\ UNCHANGED fs
    /\ UNCHANGED <<argv, tools, NUM_THREADS, dpc, exitStatus, png_files, jobs, queue,
                   invoked, before, out, log>>

\* what subprocess.run of an external tool can do: it cannot be started
\* (raises), or it runs and writes its output file, or runs and writes none
ToolOutcomes(F, p, startable) ==
    IF ~startable THEN {"raise"}
    ELSE IF IsFile(F, p) THEN {"ok", "fail"}
    ELSE {"fail"}

ToolRun(i, stage, startable) ==
    /\ pc[i] = At_(stage, "run")
    /\ invoked' = [invoked EXCEPT ![i] = Append(@, stage)]
    /\ before' = [before EXCEPT ![i] = At(fs, jobs[i])]
    /\ \E r \in ToolOutcomes(fs, jobs[i], startable) :
         IF r = "ok"
         THEN LET img == Bytes(stage, jobs[i], fs[jobs[i]].w)
              IN  /\ fs' = Put(fs, SidePath(stage, jobs[i]), img)
                  /\ out' = [out EXCEPT ![i] = img]
                  /\ pc' = [pc EXCEPT ![i] = At_(stage, "check")]
                  /\ UNCHANGED hist
         ELSE IF r = "fail"
         THEN /\ out' = [out EXCEPT ![i] = NoFile]
              /\ pc' = [pc EXCEPT ![i] = At_(stage, "check")]
              /\ UNCHANGED <<fs, hist>>
         ELSE /\ out' = [out EXCEPT ![i] = NoFile]
              /\ pc' = [pc EXCEPT ![i] = At_("raised", "-")]
              /\ hist' = hist \cup {[job |-> i, stage |-> stage,
                                     before |-> At(fs, jobs[i]), out |-> NoFile,
                                     after |-> At(fs, jobs[i]), report |-> "raise"]}
              /\ UNCHANGED fs
    /\ UNCHANGED <<argv, tools, NUM_THREADS, dpc, exitStatus, png_files, jobs, queue, log>>

\* "if os.path.exists(output_path):" ... "else: print(failed)"
ToolCheck(i, stage) ==
    /\ pc[i] = At_(stage, "check")
    /\ IF Exists(fs, SidePath(stage, jobs[i]))
       THEN /\ pc' = [pc EXCEPT ![i] = At_(stage, "replace")]
            /\ UNCHANGED <<hist, log>>
       ELSE /\ log' = log \cup {Line(i, stage, FALSE)}
            /\ hist' = hist \cup {Rec(i, stage, fs, "fail")}
            /\ pc' = [pc EXCEPT ![i] = Entry(StageAfter(stage, argv))]
    /\ UNCHANGED <<argv, tools, NUM_THREADS, fs, dpc, exitStatus, png_files, jobs, queue,
                   invoked, before, out>>

\* os.replace(output_path, input_path) and the success line
ToolReplace(i, stage) ==
    /\ pc[i] = At_(stage, "replace")
    /\ IF CanReplace(fs, SidePath(stage, jobs[i]), jobs[i])
       THEN /\ fs' = OsReplace(fs, SidePath(stage, jobs[i]), jobs[i])
            /\ log' = log \cup {Line(i, stage, TRUE)}
            /\ hist' = hist \cup {Rec(i, stage, fs', "ok")}
            /\ pc' = [pc EXCEPT ![i] = Entry(StageAfter(stage, argv))]
       ELSE /\ hist' = hist \cup {Rec(i, stage, fs, "raise")}
            /\ pc' = [pc EXCEPT ![i] = At_("raised", "-")]
            /\ UNCHANGED <<fs, log>>
    /\ UNCHANGED <<argv, tools, NUM_THREADS, dpc, exitStatus, png_files, jobs, queue,
                   invoked, before, out>>

compress_with_pngquant(i) == ToolRun(i, "pngquant", tools.pngquant)

pngquant_check(i) == ToolCheck(i, "pngquant")

pngquant_replace(i) == ToolReplace(i, "pngquant")

compress_with_zopfli(i) == ToolRun(i, "zopfli", tools.zopfli)

zopfli_check(i) == ToolCheck(i, "zopfli")

zopfli_replace(i) == ToolReplace(i, "zopfli")

Next ==
    \/ parse_blender_args
    \/ get_png_files
    \/ Submit
    \/ Done
    \/ \E i \in Jobs : process_image(i)
    \/ \E i \in Jobs : resize_image(i)
    \/ \E i \in Jobs : resize_replace(i)
    \/ \E i \in Jobs : compress_with_pngquant(i)
    \/ \E i \in Jobs : pngquant_check(i)
    \/ \E i \in Jobs : pngquant_replace(i)
    \/ \E i \in Jobs : compress_with_zopfli(i)
    \/ \E i \in Jobs : zopfli_check(i)
    \/ \E i \in Jobs : zopfli_replace(i)

Spec == Init /\ [][Next]_vars

(* ------------------------------ properties ----------------------------- *)

Stages == {"resize", "pngquant", "zopfli"}

Times(stage, i) == Cardinality({n \in DOMAIN invoked[i] : invoked[i][n] = stage})

Terminal == dpc \in {"Done", "Returned", "Exited"}

\* C1: when the batch reaches Done, Re-optimize has been invoked exactly once
\* for every discovered file, whatever Resize and Quantize did.
C1_ReoptimizeOncePerFile ==
    dpc = "Done" => \A k \in DOMAIN png_files : Times("zopfli", k) = 1

\* C2: a finished stage whose invocation produced no output left the bytes at
\* the original path as they were and reported failure; the bytes at the
\* original path change only to the output of that same invocation.
C2_StageAllOrNothing ==
    \A r \in hist :
        /\ r.out = NoFile => r.after = r.before /\ r.report \in {"fail", "raise"}
        /\ r.after # r.before => r.out # NoFile /\ r.after = r.out

\* C3: no job ends by an exception: every stage failure is caught and logged
\* inside the job and the job goes on to its next stage.
C3_NoExceptionEscapesJob ==
    /\ \A i \in Jobs : pc[i].stage # "raised"
    /\ \A r \in hist : r.report = "raise" => Line(r.job, r.stage, FALSE) \in log

\* C4: an optional stage is invoked only if its parameter was supplied, and a
\* job that ran to its end has invoked every optional stage whose parameter
\* was supplied, whatever integer was given.
C4_OptionalStageIffSupplied ==
    \A i \in Jobs :
        /\ Times("resize", i) > 0 => Supplied(argv.size)
        /\ Times("pngquant", i) > 0 => Supplied(argv.quality)
        /\ pc[i].stage = "done" =>
              /\ Supplied(argv.size) => Times("resize", i) = 1
              /\ Supplied(argv.quality) => Times("pngquant", i) = 1

StageRank(stage) ==
    CASE stage = "resize" -> 1
      [] stage = "pngquant" -> 2
      [] stage = "zopfli" -> 3

C6_DoneAfterAllJobs ==
    /\ dpc \in {"Running", "Done"} =>
          /\ jobs = png_files
          /\ \A a, b \in DOMAIN jobs : a # b => jobs[a] # jobs[b]
    /\ dpc = "Done" =>
          \A i \in Jobs : Finished(i) /\ invoked[i] # <<>>
    /\ dpc = "Running" => ENABLED Next

C6_Witness ==
    /\ dpc = "Done"
    /\ \E i, j \in Jobs : pc[i].stage = "raised" /\ pc[j].stage = "done"

\* p is located directly in directory d
DirectlyIn(d, p) ==
    /\ Len(p) > Len(d) + 1
    /\ SubSeq(p, 1, Len(d) + 1) = d \o <<"/">>
    /\ \A k \in (Len(d) + 2)..Len(p) : p[k] # "/"

\* p is located in d or in a directory below d
Under(d, p) == Len(p) > Len(d) + 1 /\ SubSeq(p, 1, Len(d) + 1) = d \o <<"/">>

Range(f) == {f[k] : k \in DOMAIN f}

\* C7: for a directory input, discovery returns exactly the files whose name
\* ends in .png in any letter case, directly in the directory when recursive
\* is unset and at any depth below it when recursive is set.
C7_DiscoverExactlyPngFiles ==
    (dpc = "Discovered" /\ IsDir(fs, argv.input_path)) =>
        Range(png_files) =
            {p \in DOMAIN fs :
                /\ IsFile(fs, p)
                /\ EndsWith(Lower(p), DotPng)
                /\ IF argv.recursive THEN Under(argv.input_path, p)
                                     ELSE DirectlyIn(argv.input_path, p)}

ParseFailed == ~argv.sep \/ ~argv.ok

NoFilesFound == dpc = "Returned" /\ png_files = <<>>

\* C8: the exit status is non-zero only when argument parsing failed or no
\* matching file exists, it is non-zero in both of those cases, and stage
\* failures of the batch leave it zero.
C8_ExitStatusOriginal ==
    /\ exitStatus \notin {-1, 0} => ParseFailed \/ NoFilesFound
    /\ (Terminal /\ ParseFailed) => exitStatus \notin {-1, 0}
    /\ NoFilesFound => exitStatus \notin {-1, 0}
    /\ dpc = "Done" => exitStatus = 0

\* C8 (amended): the exit status is non-zero exactly when argument parsing
\* failed; when no matching file exists main returns and the status is zero;
\* stage failures of the batch leave it zero.
C8_ExitStatus ==
    /\ exitStatus \notin {-1, 0} => ParseFailed
    /\ (Terminal /\ ParseFailed) => exitStatus \notin {-1, 0}
    /\ NoFilesFound => exitStatus = 0
    /\ dpc = "Done" => exitStatus = 0
    /\ Terminal <=> exitStatus # -1

C8_Witness == NoFilesFound /\ exitStatus = 0 /\ argv.sep /\ argv.ok

\* the paths a job reads or writes in this run
JobPaths(i) ==
    {jobs[i], ZopfliPath(jobs[i])}
        \cup (IF Truthy(argv.size) THEN {ResizedPath(jobs[i])} ELSE {})
        \cup (IF Truthy(argv.quality) THEN {PngquantPath(jobs[i])} ELSE {})

\* C9: the paths of two different jobs are disjoint, and the bytes at a job's
\* original path are never removed or written by another job.
C9_JobPathsDisjoint ==
    /\ \A i, j \in Jobs : i # j => JobPaths(i) \cap JobPaths(j) = {}
    /\ \A i \in Jobs :
          /\ Exists(fs, jobs[i])
          /\ IsFile(fs, jobs[i]) => fs[jobs[i]].of = jobs[i]

\* C10: for every discovered file, the side-path of each stage differs from
\* the file's own path.
C10_SidePathDiffers ==
    \A k \in DOMAIN png_files :
        \A stage \in Stages : SidePath(stage, png_files[k]) # png_files[k]

====
